---- MODULE Spec2Model ----
(***************************************************************************)
(* Model of the webhook-authentication subsystem of the EZUnsub            *)
(* TypeScript SDK (class WebhookVerifier): verifySignature,                *)
(* verifyAndParse and extractHeaders.                                      *)
(*                                                                         *)
(* Strings are sequences of one-character strings, so that prefix          *)
(* stripping, number formatting, parseInt, JSON parsing and header-name    *)
(* lower-casing are computed character by character as the code does.      *)
(* JavaScript values are records [t |-> tag, v |-> payload].               *)
(***************************************************************************)
EXTENDS Integers, Sequences, FiniteSets, TLC

\* ------------------------------------------------------------------------
\* Bounds of the model
\* ------------------------------------------------------------------------
\* number of times the wall clock advances by one second
MaxTicks == 1

\* ------------------------------------------------------------------------
\* Characters and strings
\* ------------------------------------------------------------------------
\* printable ASCII up to the underscore, in code order starting at code 32
AsciiUpper ==
  <<" ","!","\"","#","$","%","&","'","(",")","*","+",",","-",".","/",
    "0","1","2","3","4","5","6","7","8","9",":",";","<","=",">","?","@",
    "A","B","C","D","E","F","G","H","I","J","K","L","M","N","O","P","Q",
    "R","S","T","U","V","W","X","Y","Z","[","\\","]","^","_">>

\* the lowercase letters and what follows them, starting at code 97
AsciiLower ==
  <<"a","b","c","d","e","f","g","h","i","j","k","l","m","n","o","p","q",
    "r","s","t","u","v","w","x","y","z","{","|","}","~">>

AsciiUpperBase == 31
AsciiLowerBase == 96

Range(s) == {s[i] : i \in 1..Len(s)}

IndexIn(s, c) == CHOOSE i \in 1..Len(s) : s[i] = c

Chars == Range(AsciiUpper) \cup Range(AsciiLower)

\* the byte that encodes a character
CharCode ==
  [c \in Chars |->
      IF c \in Range(AsciiUpper) THEN AsciiUpperBase + IndexIn(AsciiUpper, c)
      ELSE AsciiLowerBase + IndexIn(AsciiLower, c)]

\* Buffer.from(string): the UTF-8 bytes of an ASCII string
BufferFrom(s) == [i \in 1..Len(s) |-> CharCode[s[i]]]

Digits == <<"0","1","2","3","4","5","6","7","8","9">>
HexDigits == <<"0","1","2","3","4","5","6","7","8","9","a","b","c","d","e","f">>

DigitValue(c) == CharCode[c] - CharCode["0"]
IsDigit(c) == CharCode[c] >= CharCode["0"] /\ CharCode[c] <= CharCode["9"]

\* String.prototype.startsWith
StartsWith(s, p) == Len(s) >= Len(p) /\ SubSeq(s, 1, Len(p)) = p

\* String.prototype.slice(n) for 0 <= n
Slice(s, n) == SubSeq(s, n + 1, Len(s))

\* ------------------------------------------------------------------------
\* JavaScript values
\* ------------------------------------------------------------------------
JSUndefined == [t |-> "undefined", v |-> 0]
JSNull == [t |-> "null", v |-> 0]
JSNaN == [t |-> "nan", v |-> 0]
JSNum(n) == [t |-> "num", v |-> n]
JSStr(s) == [t |-> "str", v |-> s]
JSBool(b) == [t |-> "bool", v |-> b]
JSArr(a) == [t |-> "arr", v |-> a]
JSObj(m) == [t |-> "obj", v |-> m]

\* ToBoolean, as applied by the ! operator
Truthy(x) ==
  CASE x.t = "undefined" -> FALSE
    [] x.t = "null" -> FALSE
    [] x.t = "nan" -> FALSE
    [] x.t = "num" -> x.v # 0
    [] x.t = "str" -> Len(x.v) > 0
    [] x.t = "bool" -> x.v
    [] OTHER -> TRUE

\* ------------------------------------------------------------------------
\* Number formatting and parsing
\* ------------------------------------------------------------------------
RECURSIVE NatToDecimal(_)
NatToDecimal(n) ==
  IF n < 10 THEN <<Digits[n + 1]>>
  ELSE NatToDecimal(n \div 10) \o <<Digits[(n % 10) + 1]>>

\* the string conversion of a number inside a template literal
NumberToString(x) ==
  CASE x.t = "nan" -> <<"N","a","N">>
    [] x.t = "num" -> IF x.v < 0 THEN <<"-">> \o NatToDecimal(-x.v)
                      ELSE NatToDecimal(x.v)

IsWhiteSpace(c) == c = " "

RECURSIVE SkipWhiteSpace(_, _)
SkipWhiteSpace(s, i) ==
  IF i <= Len(s) /\ IsWhiteSpace(s[i]) THEN SkipWhiteSpace(s, i + 1) ELSE i

RECURSIVE DigitRun(_, _, _)
\* value of the longest run of decimal digits of s starting at i, from acc
DigitRun(s, i, acc) ==
  IF i <= Len(s) /\ IsDigit(s[i])
  THEN LET next == acc * 10 + DigitValue(s[i])
       IN IF next >= 0 THEN DigitRun(s, i + 1, next) ELSE 0
  ELSE acc

\* parseInt(s, 10): leading white space, an optional sign, then the longest
\* prefix of decimal digits; NaN when there is no digit
ParseInt(s) ==
  LET i == SkipWhiteSpace(s, 1)
      neg == i <= Len(s) /\ s[i] = "-"
      j == IF i <= Len(s) /\ (s[i] = "-" \/ s[i] = "+") THEN i + 1 ELSE i
  IN IF j <= Len(s) /\ IsDigit(s[j])
     THEN JSNum(IF neg THEN -DigitRun(s, j, 0) ELSE DigitRun(s, j, 0))
     ELSE JSNaN

\* ------------------------------------------------------------------------
\* Keyed digest
\* ------------------------------------------------------------------------
\* createHmac(sha256, secret).update(message).digest(hex) is modelled as
\* a keyed polynomial digest over the bytes of secret and message, printed
\* as DigestLen lowercase hex digits.  The modulus is prime and the base
\* exceeds every byte value, so two inputs that differ in one byte never
\* collide (the collision freedom that HMAC-SHA256 provides in practice).
DigestLen == 64
HashBase == 131
HashMod == 1000003

RECURSIVE PolyHash(_, _, _)
\* (the test on next makes the evaluator compute each step before the next)
PolyHash(bytes, i, acc) ==
  IF i > Len(bytes) THEN acc
  ELSE LET next == (acc * HashBase + bytes[i]) % HashMod
       IN IF next >= 0 THEN PolyHash(bytes, i + 1, next) ELSE 0

RECURSIVE ToHex(_, _)
\* n as exactly k lowercase hex digits (most significant first)
ToHex(n, k) ==
  IF k = 0 THEN <<>>
  ELSE LET q == n \div 16
       IN IF q >= 0 THEN ToHex(q, k - 1) \o <<HexDigits[(n % 16) + 1]>>
          ELSE <<>>

HashSeed == 7

\* the digest state after absorbing the key
KeyedState(key) == PolyHash(BufferFrom(key), 1, HashSeed)

HmacSha256Hex(key, message) ==
  ToHex(PolyHash(BufferFrom(message), 1, KeyedState(key)), DigestLen)

\* ------------------------------------------------------------------------
\* Outcomes of a call: a returned value or a raised error
\* ------------------------------------------------------------------------
NoValue == JSUndefined
NoOutcome == [kind |-> "none", value |-> NoValue, name |-> "", message |-> <<>>]
Return(x) == [kind |-> "return", value |-> x, name |-> "", message |-> <<>>]
Throw(n, m) == [kind |-> "throw", value |-> NoValue, name |-> n, message |-> m]

\* ------------------------------------------------------------------------
\* JSON.parse
\* ------------------------------------------------------------------------
\* The parser covers objects, arrays, strings (with the escapes of the quote,
\* the backslash and the slash), integers and the three literals.  A result
\* is [ok, val, next, msg]: next is the index after the value, or the index
\* of the offending character.
POk(x, i) == [ok |-> TRUE, val |-> x, next |-> i, msg |-> ""]

PErr(s, i) ==
  [ok |-> FALSE, val |-> JSUndefined, next |-> i,
   msg |-> IF i > Len(s) THEN "Unexpected end of JSON input"
           ELSE "Unexpected token in JSON"]

CharAt(s, i, c) == i <= Len(s) /\ s[i] = c

RECURSIVE ScanString(_, _, _)
\* the characters of a string literal from index i, after its opening quote
ScanString(s, i, acc) ==
  IF i > Len(s) THEN PErr(s, i)
  ELSE IF s[i] = "\"" THEN POk(JSStr(acc), i + 1)
  ELSE IF s[i] = "\\"
       THEN IF i + 1 <= Len(s) /\ s[i + 1] \in {"\"", "\\", "/"}
            THEN ScanString(s, i + 2, Append(acc, s[i + 1]))
            ELSE PErr(s, i + 1)
  ELSE ScanString(s, i + 1, Append(acc, s[i]))

RECURSIVE DigitEnd(_, _)
DigitEnd(s, i) == IF i <= Len(s) /\ IsDigit(s[i]) THEN DigitEnd(s, i + 1) ELSE i

ScanNumber(s, i) ==
  LET neg == CharAt(s, i, "-")
      j == IF neg THEN i + 1 ELSE i
  IN IF ~(j <= Len(s) /\ IsDigit(s[j])) THEN PErr(s, j)
     ELSE IF s[j] = "0" THEN POk(JSNum(0), j + 1)
     ELSE POk(JSNum(IF neg THEN -DigitRun(s, j, 0) ELSE DigitRun(s, j, 0)),
              DigitEnd(s, j))

ScanLiteral(s, i, word, x) ==
  IF i + Len(word) - 1 <= Len(s) /\ SubSeq(s, i, i + Len(word) - 1) = word
  THEN POk(x, i + Len(word))
  ELSE PErr(s, IF i + Len(word) - 1 > Len(s) THEN Len(s) + 1 ELSE i)

RECURSIVE ParseValue(_, _)
RECURSIVE ParseElements(_, _, _)
RECURSIVE ParseMembers(_, _, _)

\* the elements of an array from index i, after "[" or ","
ParseElements(s, i, acc) ==
  LET e == ParseValue(s, i)
      j == SkipWhiteSpace(s, e.next)
  IN IF ~e.ok THEN e
     ELSE IF CharAt(s, j, ",") THEN ParseElements(s, j + 1, Append(acc, e.val))
     ELSE IF CharAt(s, j, "]") THEN POk(JSArr(Append(acc, e.val)), j + 1)
     ELSE PErr(s, j)

\* the members of an object from index i, after "{" or ","
ParseMembers(s, i, acc) ==
  LET k == SkipWhiteSpace(s, i)
      key == IF CharAt(s, k, "\"") THEN ScanString(s, k + 1, <<>>) ELSE PErr(s, k)
      c == SkipWhiteSpace(s, key.next)
      val == IF CharAt(s, c, ":") THEN ParseValue(s, c + 1) ELSE PErr(s, c)
      j == SkipWhiteSpace(s, val.next)
      members == Append(acc, <<key.val.v, val.val>>)
  IN IF ~key.ok THEN key
     ELSE IF ~val.ok THEN val
     ELSE IF CharAt(s, j, ",") THEN ParseMembers(s, j + 1, members)
     ELSE IF CharAt(s, j, "}") THEN POk(JSObj(members), j + 1)
     ELSE PErr(s, j)

ParseValue(s, i0) ==
  LET i == SkipWhiteSpace(s, i0)
  IN IF i > Len(s) THEN PErr(s, i)
     ELSE IF s[i] = "{"
          THEN IF CharAt(s, SkipWhiteSpace(s, i + 1), "}")
               THEN POk(JSObj(<<>>), SkipWhiteSpace(s, i + 1) + 1)
               ELSE ParseMembers(s, i + 1, <<>>)
     ELSE IF s[i] = "["
          THEN IF CharAt(s, SkipWhiteSpace(s, i + 1), "]")
               THEN POk(JSArr(<<>>), SkipWhiteSpace(s, i + 1) + 1)
               ELSE ParseElements(s, i + 1, <<>>)
     ELSE IF s[i] = "\"" THEN ScanString(s, i + 1, <<>>)
     ELSE IF s[i] = "-" \/ IsDigit(s[i]) THEN ScanNumber(s, i)
     ELSE IF s[i] = "n" THEN ScanLiteral(s, i, <<"n","u","l","l">>, JSNull)
     ELSE IF s[i] = "t" THEN ScanLiteral(s, i, <<"t","r","u","e">>, JSBool(TRUE))
     ELSE IF s[i] = "f"
          THEN ScanLiteral(s, i, <<"f","a","l","s","e">>, JSBool(FALSE))
     ELSE PErr(s, i)

\* JSON.parse(text): one value, then nothing but white space
JSONParse(s) ==
  LET r == ParseValue(s, 1)
      j == SkipWhiteSpace(s, r.next)
  IN IF ~r.ok THEN r
     ELSE IF j <= Len(s) THEN PErr(s, j)
     ELSE r

\* the own property name of a parsed value (the last member of that name
\* wins); primitives, strings and arrays have no such property
HasOwn(x, name) == x.t = "obj" /\ \E i \in 1..Len(x.v) : x.v[i][1] = name

OwnValue(x, name) ==
  x.v[CHOOSE i \in 1..Len(x.v) :
        /\ x.v[i][1] = name
        /\ \A j \in (i + 1)..Len(x.v) : x.v[j][1] # name][2]

\* the property read x.name; reading a property of null or undefined raises
GetProp(x, name) ==
  IF x.t \in {"null", "undefined"}
  THEN Throw("TypeError", <<"Cannot read properties of ", x.t>>)
  ELSE Return(IF HasOwn(x, name) THEN OwnValue(x, name) ELSE JSUndefined)


\* ------------------------------------------------------------------------
\* WebhookVerifier
\* ------------------------------------------------------------------------
\* timingSafeEqual that compares the lengths only
timingSafeEqual_LengthOnly(a, b) ==
  IF Len(a) # Len(b)
  THEN Throw("RangeError", <<"Input buffers must have the same byte length">>)
  ELSE Return(JSBool(TRUE))

\* crypto.timingSafeEqual(a, b): raises when the byte lengths differ
timingSafeEqual(a, b) ==
  IF Len(a) # Len(b)
  THEN Throw("RangeError", <<"Input buffers must have the same byte length">>)
  ELSE Return(JSBool(a = b))

Sha256Prefix == <<"s","h","a","2","5","6","=">>

\* a window that rejects old timestamps only
OutsideWindow_PastOnly(nowSec, timestamp, maxAge) ==
  /\ timestamp.t = "num"
  /\ nowSec - timestamp.v > maxAge

\* Math.abs(now - timestamp) > maxAge; any comparison with NaN is false
OutsideWindow(nowSec, timestamp, maxAge) ==
  /\ timestamp.t = "num"
  /\ (IF nowSec >= timestamp.v THEN nowSec - timestamp.v
      ELSE timestamp.v - nowSec) > maxAge

SigningMessage(timestamp, body) == NumberToString(timestamp) \o <<".">> \o body

\* WebhookVerifier.verifySignature
verifySignature(key, maxAge, nowSec, signature, timestamp, body) ==
  IF OutsideWindow(nowSec, timestamp, maxAge) THEN Return(JSBool(FALSE))
  ELSE
    LET message == SigningMessage(timestamp, body)
        expected == HmacSha256Hex(key, message)
    IN IF signature.t # "str"
       THEN Throw("TypeError", <<"Cannot read properties of ", signature.t>>)
       ELSE
         LET sigValue == IF StartsWith(signature.v, Sha256Prefix)
                         THEN Slice(signature.v, 7) ELSE signature.v
             cmp == timingSafeEqual(BufferFrom(expected), BufferFrom(sigValue))
         IN IF cmp.kind = "throw" THEN Return(JSBool(FALSE)) ELSE cmp

\* the normalisation of options.timestamp: parseInt for a string, the number
\* itself otherwise
NormalizeTimestamp(timestamp) ==
  IF timestamp.t = "str" THEN ParseInt(timestamp.v) ELSE timestamp

EventName == <<"e","v","e","n","t">>
TimestampName == <<"t","i","m","e","s","t","a","m","p">>
DataName == <<"d","a","t","a">>

InvalidSignatureError == Throw("Error", <<"Invalid webhook signature">>)
InvalidJsonError(msg) == Throw("Error", <<"Invalid JSON payload: ", msg>>)
MissingFieldError(field) == Throw("Error", <<"Missing '", field, "' field in payload">>)

\* options.deliveryId ?? ''
DeliveryIdOrEmpty(deliveryId) ==
  IF deliveryId.t \in {"undefined", "null"} THEN JSStr(<<>>) ELSE deliveryId

WebhookPayload(event, timestamp, payloadData, deliveryId) ==
  [t |-> "payload",
   v |-> [event |-> event, timestamp |-> timestamp, data |-> payloadData,
          deliveryId |-> deliveryId]]

\* a validation that looks at the timestamp field before the event field
ValidateFields_TimestampFirst(parsed, deliveryId) ==
  LET event == GetProp(parsed, EventName)
      timestamp == GetProp(parsed, TimestampName)
      payloadData == GetProp(parsed, DataName)
  IN IF event.kind = "throw" THEN event
     ELSE IF ~Truthy(timestamp.value) THEN MissingFieldError("timestamp")
     ELSE IF ~Truthy(event.value) THEN MissingFieldError("event")
     ELSE IF ~Truthy(payloadData.value) THEN MissingFieldError("data")
     ELSE Return(WebhookPayload(event.value, timestamp.value, payloadData.value,
                                DeliveryIdOrEmpty(deliveryId)))

\* the field validation and the assembly of the payload, on the parsed body
ValidateFields(parsed, deliveryId) ==
  LET event == GetProp(parsed, EventName)
      timestamp == GetProp(parsed, TimestampName)
      payloadData == GetProp(parsed, DataName)
  IN IF event.kind = "throw" THEN event
     ELSE IF ~Truthy(event.value) THEN MissingFieldError("event")
     ELSE IF ~Truthy(timestamp.value) THEN MissingFieldError("timestamp")
     ELSE IF ~Truthy(payloadData.value) THEN MissingFieldError("data")
     ELSE Return(WebhookPayload(event.value, timestamp.value, payloadData.value,
                                DeliveryIdOrEmpty(deliveryId)))

\* ------------------------------------------------------------------------
\* Header carriers and extractHeaders
\* ------------------------------------------------------------------------
UpperLetters ==
  <<"A","B","C","D","E","F","G","H","I","J","K","L","M","N","O","P","Q",
    "R","S","T","U","V","W","X","Y","Z">>
LowerLetters ==
  <<"a","b","c","d","e","f","g","h","i","j","k","l","m","n","o","p","q",
    "r","s","t","u","v","w","x","y","z">>

LowerChar(c) ==
  IF c \in Range(UpperLetters) THEN LowerLetters[IndexIn(UpperLetters, c)] ELSE c
UpperChar(c) ==
  IF c \in Range(LowerLetters) THEN UpperLetters[IndexIn(LowerLetters, c)] ELSE c

\* String.prototype.toLowerCase / toUpperCase on ASCII
ToLowerCase(s) == [i \in 1..Len(s) |-> LowerChar(s[i])]
ToUpperCase(s) == [i \in 1..Len(s) |-> UpperChar(s[i])]

SignatureHeader == <<"x","-","w","e","b","h","o","o","k","-","s","i","g","n","a","t","u","r","e">>
TimestampHeader == <<"x","-","w","e","b","h","o","o","k","-","t","i","m","e","s","t","a","m","p">>
EventHeader == <<"x","-","w","e","b","h","o","o","k","-","e","v","e","n","t">>
DeliveryIdHeader ==
  <<"x","-","w","e","b","h","o","o","k","-","d","e","l","i","v","e","r","y","-","i","d">>

\* A carrier is [shape, entries]: entries is the sequence of <<name, value>>
\* pairs, in Object.entries order for a plain object.  A Headers collection
\* stores its names in lower case.
NewHeaders(entries) ==
  [shape |-> "Headers",
   entries |-> [i \in 1..Len(entries) |-> <<ToLowerCase(entries[i][1]), entries[i][2]>>]]
NewRecord(entries) == [shape |-> "Record", entries |-> entries]

RECURSIVE JoinValues(_, _, _, _)
\* the values of the entries named name from index i on, joined by ", "
JoinValues(entries, name, i, acc) ==
  IF i > Len(entries) THEN acc
  ELSE IF entries[i][1] = name
       THEN JoinValues(entries, name, i + 1,
                       IF acc.t = "null" THEN JSStr(entries[i][2])
                       ELSE JSStr(acc.v \o <<",", " ">> \o entries[i][2]))
       ELSE JoinValues(entries, name, i + 1, acc)

\* Headers.prototype.get: case-insensitive in the name, null when absent
HeadersGet(headers, key) == JoinValues(headers.entries, ToLowerCase(key), 1, JSNull)

\* a scan that compares the names as they are spelled
RecordGet_CaseSensitive(headers, key) ==
  LET hits == {i \in 1..Len(headers.entries) : headers.entries[i][1] = key}
  IN IF hits = {} THEN JSNull
     ELSE JSStr(headers.entries[CHOOSE i \in hits : \A j \in hits : i <= j][2])

\* the scan of a plain object: the first entry whose lower-cased name is the
\* lower-cased key
RecordGet(headers, key) ==
  LET lowerKey == ToLowerCase(key)
      hits == {i \in 1..Len(headers.entries) :
                 ToLowerCase(headers.entries[i][1]) = lowerKey}
  IN IF hits = {} THEN JSNull
     ELSE JSStr(headers.entries[CHOOSE i \in hits : \A j \in hits : i <= j][2])

\* the local function get of extractHeaders
HeaderGet(headers, key) ==
  IF headers.shape = "Headers" THEN HeadersGet(headers, key)
  ELSE RecordGet(headers, key)

MissingSignatureHeader == Throw("Error", <<"Missing X-Webhook-Signature header">>)
MissingTimestampHeader == Throw("Error", <<"Missing X-Webhook-Timestamp header">>)

\* a default that is applied to no header
OrEmpty_Never(x) == x

\* x ?? '' on a header value
OrEmpty(x) == IF x.t \in {"undefined", "null"} THEN JSStr(<<>>) ELSE x

ExtractedHeaders(signature, timestamp, event, deliveryId) ==
  [t |-> "headers",
   v |-> [signature |-> signature, timestamp |-> timestamp, event |-> event,
          deliveryId |-> deliveryId]]

\* WebhookVerifier.extractHeaders
extractHeaders(headers) ==
  LET signature == HeaderGet(headers, SignatureHeader)
      timestamp == HeaderGet(headers, TimestampHeader)
      event == HeaderGet(headers, EventHeader)
      deliveryId == HeaderGet(headers, DeliveryIdHeader)
  IN IF ~Truthy(signature) THEN MissingSignatureHeader
     ELSE IF ~Truthy(timestamp) THEN MissingTimestampHeader
     ELSE Return(ExtractedHeaders(signature, timestamp, OrEmpty(event),
                                  OrEmpty(deliveryId)))

\* ------------------------------------------------------------------------
\* Inputs: bodies, timestamps, signatures, header carriers
\* ------------------------------------------------------------------------
Quoted(s) == <<"\"">> \o s \o <<"\"">>
Member(name, text) == Quoted(name) \o <<":">> \o text

RECURSIVE JoinText(_, _)
JoinText(parts, i) ==
  IF i > Len(parts) THEN <<>>
  ELSE IF i = Len(parts) THEN parts[i]
  ELSE parts[i] \o <<",">> \o JoinText(parts, i + 1)

ObjectText(members) == <<"{">> \o JoinText(members, 1) \o <<"}">>

NullText == <<"n","u","l","l">>
EventTest == Member(EventName, Quoted(<<"t","e","s","t">>))
TimestampT1 == Member(TimestampName, Quoted(<<"t","1">>))
DataC1 == Member(DataName, ObjectText(<<Member(<<"i","d">>, Quoted(<<"c","1">>))>>))

\* {"event":"test","timestamp":"t1","data":{"id":"c1"}}
BodyOk == ObjectText(<<EventTest, TimestampT1, DataC1>>)
BodyNoEvent == ObjectText(<<TimestampT1, DataC1>>)
BodyNoTimestamp == ObjectText(<<EventTest, DataC1>>)
BodyNoData == ObjectText(<<EventTest, TimestampT1>>)
BodyOnlyData == ObjectText(<<DataC1>>)
BodyEmptyObject == ObjectText(<<>>)
BodyEmptyEvent == ObjectText(<<Member(EventName, Quoted(<<>>)), TimestampT1, DataC1>>)
BodyEmptyTimestamp ==
  ObjectText(<<EventTest, Member(TimestampName, Quoted(<<>>)), DataC1>>)
BodyEmptyData == ObjectText(<<EventTest, TimestampT1, Member(DataName, ObjectText(<<>>))>>)
BodyNullData == ObjectText(<<EventTest, TimestampT1, Member(DataName, NullText)>>)
BodyNumEvent == ObjectText(<<Member(EventName, <<"5">>), TimestampT1, DataC1>>)
BodyNumTimestamp == ObjectText(<<EventTest, Member(TimestampName, <<"1","7">>), DataC1>>)
BodyZeroTimestamp == ObjectText(<<EventTest, Member(TimestampName, <<"0">>), DataC1>>)
BodyFalseEvent ==
  ObjectText(<<Member(EventName, <<"f","a","l","s","e">>), TimestampT1, DataC1>>)
BodyStrData == ObjectText(<<EventTest, TimestampT1, Member(DataName, Quoted(<<"x">>))>>)
BodyArrData == ObjectText(<<EventTest, TimestampT1, Member(DataName, <<"[","1","]">>)>>)
\* BodyOk without its closing brace
BodyTruncated == SubSeq(BodyOk, 1, Len(BodyOk) - 1)
BodyEmptyText == <<>>
BodyNull == NullText
BodyNum == <<"7">>
BodyStr == Quoted(<<"s">>)
BodyArr == <<"[","1","]">>
\* [1,]
BodyTrailingComma == <<"[","1",",","]">>

Bodies ==
  {BodyOk, BodyNoEvent, BodyNoTimestamp, BodyNoData, BodyOnlyData,
   BodyEmptyObject, BodyEmptyEvent, BodyEmptyTimestamp, BodyEmptyData,
   BodyNullData, BodyNumEvent, BodyNumTimestamp, BodyStrData, BodyArrData,
   BodyTruncated, BodyEmptyText, BodyNull, BodyNum, BodyStr, BodyArr,
   BodyTrailingComma, BodyZeroTimestamp, BodyFalseEvent}

Secret == <<"w","h","s","e","c","_","t","e","s","t">>
OtherSecret == <<"w","h","s","e","c","_","e","v","i","l">>

DefaultMaxAge == 300
MaxAges == {0, DefaultMaxAge}

\* the clock reading, in seconds, when the verifier is constructed
Epoch == 1700000000

\* the numeric timestamps of deliveries: around both edges of the window
\* that is open at Epoch
NumericTimestamps(maxAge) ==
  {JSNum(Epoch + d) : d \in {0 - maxAge - 1, 0 - maxAge, 0, maxAge, maxAge + 1}}
    \cup {JSNaN}

\* the timestamps as a header carries them
StringTimestamps(maxAge) ==
  {JSStr(NumberToString(JSNum(Epoch + d))) : d \in {0 - maxAge, 0, maxAge + 1}}
    \cup {JSStr(<<>>), JSStr(<<"a","b","c">>),
          JSStr(NumberToString(JSNum(Epoch)) \o <<"a","b","c">>)}

\* another character than c
OtherChar(c) == IF c = "0" THEN "1" ELSE "0"

\* s with the character at index i replaced by another one
MutateAt(s, i) == [s EXCEPT ![i] = OtherChar(s[i])]

SignatureKinds ==
  [kind : {"valid", "prefixed", "doublePrefixed", "upper", "short", "long",
           "empty", "prefixOnly", "otherKey", "undefined"}, pos : {0}]
    \cup [kind : {"mutated"}, pos : {1, DigestLen}]
    \cup [kind : {"otherBody"}, pos : {0, 1}]

\* the signature a sender of the given kind attaches to the delivery of body
\* at timestamp (as the verifier will read it)
MakeSignature(sk, key, timestamp, body) ==
  LET message == SigningMessage(timestamp, body)
      valid == HmacSha256Hex(key, message)
      at == IF sk.pos = 0 THEN Len(body) ELSE sk.pos
  IN CASE sk.kind = "valid" -> JSStr(valid)
       [] sk.kind = "prefixed" -> JSStr(Sha256Prefix \o valid)
       [] sk.kind = "doublePrefixed" -> JSStr(Sha256Prefix \o Sha256Prefix \o valid)
       [] sk.kind = "upper" -> JSStr(ToUpperCase(valid))
       [] sk.kind = "short" -> JSStr(SubSeq(valid, 1, DigestLen - 1))
       [] sk.kind = "long" -> JSStr(valid \o <<"0">>)
       [] sk.kind = "empty" -> JSStr(<<>>)
       [] sk.kind = "prefixOnly" -> JSStr(Sha256Prefix)
       [] sk.kind = "otherKey" -> JSStr(HmacSha256Hex(OtherSecret, message))
       [] sk.kind = "mutated" -> JSStr(MutateAt(valid, sk.pos))
       [] sk.kind = "otherBody" ->
            IF Len(body) = 0 THEN JSStr(HmacSha256Hex(key, message \o <<"0">>))
            ELSE JSStr(HmacSha256Hex(key, SigningMessage(timestamp, MutateAt(body, at))))
       [] sk.kind = "undefined" -> JSUndefined

DeliveryIds == {JSUndefined, JSStr(<<"d","1">>)}

\* spellings of a header name
TitleCase(name) ==
  [i \in 1..Len(name) |->
     IF i = 1 \/ name[i - 1] = "-" THEN UpperChar(name[i]) ELSE name[i]]
MixedCase(name) ==
  [i \in 1..Len(name) |-> IF i \in 3..9 THEN UpperChar(name[i]) ELSE name[i]]
Spell(style, name) ==
  CASE style = "lower" -> name
    [] style = "title" -> TitleCase(name)
    [] style = "upper" -> ToUpperCase(name)
    [] style = "mixed" -> MixedCase(name)
Spellings == {"lower", "title", "upper", "mixed"}

Absent == JSNull
SignatureValues == {Absent, JSStr(<<>>), JSStr(Sha256Prefix \o <<"a","b">>)}
TimestampValues == {Absent, JSStr(<<>>), JSStr(<<"1","7">>)}
EventValues == {Absent, JSStr(<<"t","e","s","t">>)}
DeliveryIdValues == {Absent, JSStr(<<"d","1">>)}

ContentType == <<"C","o","n","t","e","n","t","-","T","y","p","e">>

\* the entries a request carries: an unrelated header first or not, then each
\* webhook header that is present, its name spelled in the given style
HeaderEntries(style, extra, sig, tstamp, ev, did) ==
  (IF extra THEN <<<<ContentType, <<"j","s","o","n">>>>>> ELSE <<>>)
    \o (IF ev = Absent THEN <<>> ELSE <<<<Spell(style, EventHeader), ev.v>>>>)
    \o (IF tstamp = Absent THEN <<>> ELSE <<<<Spell(style, TimestampHeader), tstamp.v>>>>)
    \o (IF sig = Absent THEN <<>> ELSE <<<<Spell(style, SignatureHeader), sig.v>>>>)
    \o (IF did = Absent THEN <<>> ELSE <<<<Spell(style, DeliveryIdHeader), did.v>>>>)

\* ------------------------------------------------------------------------
\* State
\* ------------------------------------------------------------------------
VARIABLES
  verifier,   \* the WebhookVerifier instance: [secret, maxAgeSeconds]
  now,        \* Math.floor(Date.now() / 1000)
  ticks,      \* how often the clock has advanced
  pc,         \* "idle", the position inside verifyAndParse, or "done"
  call,       \* the operation in progress or just finished, with its arguments
  ts,         \* verifyAndParse: the normalised timestamp
  checked,    \* verifyAndParse: the outcome of its verifySignature call
  data,       \* verifyAndParse: the parsed body
  steps,      \* the stages the call has run, in order
  result      \* the outcome of the call

vars == <<verifier, now, ticks, pc, call, ts, checked, data, steps, result>>

\* the state of the REST client and of its request in progress
VARIABLES
  client,     \* the EZUnsubClient instance: [timeout]
  cpc,        \* "idle", "fetching", "reading" (the body) or "done"
  elapsed,    \* milliseconds since request was called
  timer,      \* the abort timer: "none", "armed", "cleared" or "fired"
  aborted,    \* controller.signal.aborted
  response,   \* the response fetch resolved with: [status, retryAfter]
  cresult     \* the outcome of request

clientVars == <<client, cpc, elapsed, timer, aborted, response, cresult>>

\* the whole state
allVars == <<vars, clientVars>>

\* options.timeout ?? 30000, in milliseconds
DefaultTimeout == 30000
ShortTimeout == 5
Timeouts == {DefaultTimeout, ShortTimeout}

NoResponse == [status |-> 0, retryAfter |-> JSNull]

NoCall ==
  [op |-> "none", signature |-> JSUndefined, timestamp |-> JSUndefined,
   body |-> <<>>, deliveryId |-> JSUndefined, headers |-> NewRecord(<<>>)]

\* no webhook call in progress, the clock at Epoch
WebhookIdle ==
  /\ now = Epoch
  /\ ticks = 0
  /\ pc = "idle"
  /\ call = NoCall
  /\ ts = JSUndefined
  /\ checked = NoOutcome
  /\ data = JSUndefined
  /\ steps = <<>>
  /\ result = NoOutcome

\* no request in progress
ClientIdle ==
  /\ cpc = "idle"
  /\ elapsed = 0
  /\ timer = "none"
  /\ aborted = FALSE
  /\ response = NoResponse
  /\ cresult = NoOutcome

\* a verifier constructed with either window, and a client with its defaults
Init ==
  /\ verifier \in [secret : {Secret}, maxAgeSeconds : MaxAges]
  /\ WebhookIdle
  /\ client = [timeout |-> DefaultTimeout]
  /\ ClientIdle

\* a second passes
Tick ==
  /\ pc = "idle"
  /\ ticks < MaxTicks
  /\ ticks' = ticks + 1
  /\ now' = now + 1
  /\ UNCHANGED <<verifier, pc, call, ts, checked, data, steps, result>>
  /\ UNCHANGED clientVars

\* a caller invokes verifySignature directly
VerifySignatureCall(sk, timestamp, body) ==
  /\ pc = "idle"
  /\ LET signature == MakeSignature(sk, verifier.secret, timestamp, body)
     IN /\ call' = [NoCall EXCEPT !.op = "verifySignature",
                                  !.signature = signature,
                                  !.timestamp = timestamp, !.body = body]
        /\ result' = verifySignature(verifier.secret, verifier.maxAgeSeconds,
                                     now, signature, timestamp, body)
  /\ steps' = <<"verifySignature">>
  /\ pc' = "done"
  /\ UNCHANGED <<verifier, now, ticks, ts, checked, data>>
  /\ UNCHANGED clientVars

\* verifyAndParse is entered and normalises the timestamp
VerifyAndParseCall(sk, timestamp, body, deliveryId) ==
  /\ pc = "idle"
  /\ call' = [NoCall EXCEPT
                !.op = "verifyAndParse",
                !.signature = MakeSignature(sk, verifier.secret,
                                            NormalizeTimestamp(timestamp), body),
                !.timestamp = timestamp, !.body = body,
                !.deliveryId = deliveryId]
  /\ ts' = NormalizeTimestamp(timestamp)
  /\ steps' = <<"normalize">>
  /\ pc' = "verify"
  /\ UNCHANGED <<verifier, now, ticks, checked, data, result>>
  /\ UNCHANGED clientVars

\* a verifyAndParse that goes on to parse whatever the check returned
VerifyStep_NoCheck ==
  /\ pc = "verify"
  /\ checked' = verifySignature(verifier.secret, verifier.maxAgeSeconds, now,
                                call.signature, ts, call.body)
  /\ result' = result
  /\ pc' = "parse"
  /\ steps' = Append(steps, "verifySignature")
  /\ UNCHANGED <<verifier, now, ticks, call, ts, data>>
  /\ UNCHANGED clientVars

\* a verifyAndParse that reports a stale timestamp in its own words
VerifyStep_Distinguishing ==
  /\ pc = "verify"
  /\ LET r == verifySignature(verifier.secret, verifier.maxAgeSeconds, now,
                              call.signature, ts, call.body)
     IN /\ checked' = r
        /\ IF r.kind = "throw" THEN result' = r /\ pc' = "done"
           ELSE IF ~r.value.v
                THEN /\ result' = IF OutsideWindow(now, ts, verifier.maxAgeSeconds)
                                  THEN Throw("Error", <<"Webhook timestamp too old">>)
                                  ELSE InvalidSignatureError
                     /\ pc' = "done"
           ELSE result' = result /\ pc' = "parse"
  /\ steps' = Append(steps, "verifySignature")
  /\ UNCHANGED <<verifier, now, ticks, call, ts, data>>
  /\ UNCHANGED clientVars

\* verifyAndParse checks the signature
VerifyStep ==
  /\ pc = "verify"
  /\ LET r == verifySignature(verifier.secret, verifier.maxAgeSeconds, now,
                              call.signature, ts, call.body)
     IN /\ checked' = r
        /\ IF r.kind = "throw" THEN result' = r /\ pc' = "done"
           ELSE IF ~r.value.v THEN result' = InvalidSignatureError /\ pc' = "done"
           ELSE result' = result /\ pc' = "parse"
  /\ steps' = Append(steps, "verifySignature")
  /\ UNCHANGED <<verifier, now, ticks, call, ts, data>>
  /\ UNCHANGED clientVars

\* a verifyAndParse that reports a parse failure as a bad signature
ParseStep_AsAuthFailure ==
  /\ pc = "parse"
  /\ LET p == JSONParse(call.body)
     IN IF p.ok THEN data' = p.val /\ result' = result /\ pc' = "validate"
        ELSE data' = data /\ result' = InvalidSignatureError /\ pc' = "done"
  /\ steps' = Append(steps, "JSON.parse")
  /\ UNCHANGED <<verifier, now, ticks, call, ts, checked>>
  /\ UNCHANGED clientVars

\* verifyAndParse parses the body
ParseStep ==
  /\ pc = "parse"
  /\ LET p == JSONParse(call.body)
     IN IF p.ok THEN data' = p.val /\ result' = result /\ pc' = "validate"
        ELSE data' = data /\ result' = InvalidJsonError(p.msg) /\ pc' = "done"
  /\ steps' = Append(steps, "JSON.parse")
  /\ UNCHANGED <<verifier, now, ticks, call, ts, checked>>
  /\ UNCHANGED clientVars

\* verifyAndParse validates the fields and returns the payload
ValidateStep ==
  /\ pc = "validate"
  /\ result' = ValidateFields(data, call.deliveryId)
  /\ steps' = Append(steps, "validate")
  /\ pc' = "done"
  /\ UNCHANGED <<verifier, now, ticks, call, ts, checked, data>>
  /\ UNCHANGED clientVars

\* a caller invokes extractHeaders on the headers of a request
ExtractHeadersCall(shape, style, extra, sig, tstamp, ev, did) ==
  /\ pc = "idle"
  /\ LET entries == HeaderEntries(style, extra, sig, tstamp, ev, did)
         headers == IF shape = "Headers" THEN NewHeaders(entries)
                    ELSE NewRecord(entries)
     IN /\ call' = [NoCall EXCEPT !.op = "extractHeaders", !.headers = headers]
        /\ result' = extractHeaders(headers)
  /\ steps' = <<"extractHeaders">>
  /\ pc' = "done"
  /\ UNCHANGED <<verifier, now, ticks, ts, checked, data>>
  /\ UNCHANGED clientVars

\* the caller has taken the outcome; the next request may come
Finish ==
  /\ pc = "done"
  /\ pc' = "idle"
  /\ call' = NoCall
  /\ ts' = JSUndefined
  /\ checked' = NoOutcome
  /\ data' = JSUndefined
  /\ steps' = <<>>
  /\ result' = NoOutcome
  /\ UNCHANGED <<verifier, now, ticks>>
  /\ UNCHANGED clientVars

\* the requests a caller may make while no call is in progress
Calls ==
  /\ pc = "idle"
  /\ \/ \E sk \in SignatureKinds, body \in Bodies :
          \E timestamp \in NumericTimestamps(verifier.maxAgeSeconds) :
            VerifySignatureCall(sk, timestamp, body)
     \/ \E sk \in SignatureKinds, body \in Bodies, deliveryId \in DeliveryIds :
          \E timestamp \in NumericTimestamps(verifier.maxAgeSeconds)
                             \cup StringTimestamps(verifier.maxAgeSeconds) :
            VerifyAndParseCall(sk, timestamp, body, deliveryId)
     \/ \E shape \in {"Headers", "Record"}, style \in Spellings,
           extra \in BOOLEAN, sig \in SignatureValues,
           tstamp \in TimestampValues, ev \in EventValues,
           did \in DeliveryIdValues :
          ExtractHeadersCall(shape, style, extra, sig, tstamp, ev, did)

Next ==
  \/ Tick
  \/ Calls
  \/ VerifyStep
  \/ ParseStep
  \/ ValidateStep
  \/ Finish

Spec == Init /\ [][Next]_allVars

\* ------------------------------------------------------------------------
\* EZUnsubClient.request
\* ------------------------------------------------------------------------
\* the instants, in milliseconds after the call, at which something happens
Instants(timeout) == {1, timeout - 1, timeout, timeout + 1, 2 * timeout}

\* the responses a server gives: status and Retry-After header
Statuses == {200, 204, 400, 401, 403, 404, 429, 500}
Responses ==
  [status : Statuses \ {429}, retryAfter : {JSNull}]
    \cup [status : {429}, retryAfter : {JSNull, JSStr(<<"5">>)}]

ErrorName == <<"e","r","r","o","r">>

\* the texts a response body may hold: nothing, an error object, an empty
\* object, an array, and a text that is not JSON
ResponseTexts ==
  {<<>>,
   ObjectText(<<Member(ErrorName, Quoted(<<"n","o">>))>>),
   ObjectText(<<>>),
   <<"[","1","]">>,
   <<"{">>}

\* an error of the SDK: its class name, its message and its statusCode
ClientError(name, message, statusCode) ==
  [kind |-> "throw", value |-> statusCode, name |-> name, message |-> message]

\* the catch block of request: any error that is not an EZUnsubError is
\* wrapped
RequestFailed(message) ==
  ClientError("EZUnsubError", <<"Request failed: ", message>>, JSUndefined)

\* parseJson: the parsed body, or null for an empty, unreadable or
\* malformed one
parseJson(readOk, text) ==
  IF ~readOk \/ Len(text) = 0 THEN JSNull
  ELSE IF JSONParse(text).ok THEN JSONParse(text).val
  ELSE JSNull

\* data?.error ?? fallback
ErrorOr(parsed, fallback) ==
  IF parsed.t \in {"null", "undefined"} THEN <<fallback>>
  ELSE IF GetProp(parsed, ErrorName).value.t \in {"null", "undefined"}
       THEN <<fallback>>
  ELSE <<GetProp(parsed, ErrorName).value>>

\* the statuses for which handleResponse settles without reading the body
SettlesAtOnce(status) == status \in {401, 429, 204}

\* handleResponse up to its first await, for the statuses that need no body
handleResponseAtOnce(resp) ==
  CASE resp.status = 401 ->
         ClientError("AuthenticationError", <<"Authentication required">>, JSNum(401))
    [] resp.status = 429 ->
         [ClientError("RateLimitError", <<"Rate limit exceeded">>, JSNum(429))
            EXCEPT !.message =
              <<"Rate limit exceeded",
                IF Truthy(resp.retryAfter) THEN ParseInt(resp.retryAfter.v)
                ELSE JSUndefined>>]
    [] resp.status = 204 -> Return(JSObj(<<>>))

\* handleResponse once the body has been read (readOk) or its read has
\* failed
handleResponseBody(resp, readOk, text) ==
  CASE resp.status = 403 ->
         ClientError("ForbiddenError",
                     ErrorOr(parseJson(readOk, text), "Access denied"), JSNum(403))
    [] resp.status = 404 ->
         ClientError("NotFoundError",
                     ErrorOr(parseJson(readOk, text), "Resource not found"), JSNum(404))
    [] resp.status = 400 ->
         ClientError("ValidationError",
                     ErrorOr(parseJson(readOk, text), "Invalid request"), JSNum(400))
    [] resp.status >= 400 /\ resp.status \notin {400, 403, 404} ->
         ClientError("EZUnsubError",
                     ErrorOr(parseJson(readOk, text),
                             <<"Request failed with status ", resp.status>>),
                     JSNum(resp.status))
    [] OTHER ->
         IF ~readOk THEN Throw("TypeError", <<"terminated">>)
         ELSE IF Len(text) = 0 THEN Return(JSObj(<<>>))
         ELSE IF JSONParse(text).ok THEN Return(JSONParse(text).val)
         ELSE Throw("SyntaxError", <<JSONParse(text).msg>>)

\* the abort timer is armed and its delay has passed
TimerDue == timer = "armed" /\ elapsed >= client.timeout

\* request is called: the controller is made, the timer armed, fetch started
RequestCall ==
  /\ cpc = "idle"
  /\ cpc' = "fetching"
  /\ elapsed' = 0
  /\ timer' = "armed"
  /\ aborted' = FALSE
  /\ response' = NoResponse
  /\ cresult' = NoOutcome
  /\ UNCHANGED <<client, vars>>

\* time passes while the request is in progress; a due timer runs before
\* anything later happens
Advance ==
  /\ cpc \in {"fetching", "reading"}
  /\ ~TimerDue
  /\ \E t \in Instants(client.timeout) :
       /\ t > elapsed
       /\ timer = "armed" => t <= client.timeout
       /\ elapsed' = t
  /\ UNCHANGED <<client, cpc, timer, aborted, response, cresult, vars>>

\* the timer callback: controller.abort()
TimerFire ==
  /\ TimerDue
  /\ timer' = "fired"
  /\ aborted' = TRUE
  /\ UNCHANGED <<client, cpc, elapsed, response, cresult, vars>>

\* fetch rejects because the signal was aborted; the catch block clears the
\* timer and wraps the error
FetchAborted ==
  /\ cpc = "fetching"
  /\ aborted
  /\ cresult' = RequestFailed("This operation was aborted")
  /\ cpc' = "done"
  /\ UNCHANGED <<client, elapsed, timer, aborted, response, vars>>

\* fetch rejects with a network error
FetchFailed ==
  /\ cpc = "fetching"
  /\ ~aborted
  /\ ~TimerDue
  /\ timer' = "cleared"
  /\ cresult' = RequestFailed("fetch failed")
  /\ cpc' = "done"
  /\ UNCHANGED <<client, elapsed, aborted, response, vars>>

\* fetch resolves with the response (its status line and headers): the timer
\* is cleared and handleResponse runs up to its first await
FetchResolved(resp) ==
  /\ cpc = "fetching"
  /\ ~aborted
  /\ ~TimerDue
  /\ timer' = "cleared"
  /\ response' = resp
  /\ IF SettlesAtOnce(resp.status)
     THEN cresult' = handleResponseAtOnce(resp) /\ cpc' = "done"
     ELSE cresult' = cresult /\ cpc' = "reading"
  /\ UNCHANGED <<client, elapsed, aborted, vars>>

\* the body has arrived and response.text() resolves
BodyRead(text) ==
  /\ cpc = "reading"
  /\ cresult' = handleResponseBody(response, TRUE, text)
  /\ cpc' = "done"
  /\ UNCHANGED <<client, elapsed, timer, aborted, response, vars>>

\* the connection breaks while the body is read and response.text() rejects
BodyFailed ==
  /\ cpc = "reading"
  /\ cresult' = handleResponseBody(response, FALSE, <<>>)
  /\ cpc' = "done"
  /\ UNCHANGED <<client, elapsed, timer, aborted, response, vars>>

\* the caller has taken the outcome of request; the controller and the
\* timer of the finished call stay as they are until the next call makes
\* its own
ClientFinish ==
  /\ cpc = "done"
  /\ cpc' = "idle"
  /\ elapsed' = 0
  /\ response' = NoResponse
  /\ cresult' = NoOutcome
  /\ UNCHANGED <<client, timer, aborted, vars>>

\* a client constructed with the default or with a short timeout
ClientInit ==
  /\ verifier = [secret |-> Secret, maxAgeSeconds |-> DefaultMaxAge]
  /\ WebhookIdle
  /\ client \in [timeout : Timeouts]
  /\ ClientIdle

ClientNext ==
  \/ RequestCall
  \/ Advance
  \/ TimerFire
  \/ FetchAborted
  \/ FetchFailed
  \/ \E resp \in Responses : FetchResolved(resp)
  \/ \E text \in ResponseTexts : BodyRead(text)
  \/ BodyFailed
  \/ ClientFinish

ClientSpec == ClientInit /\ [][ClientNext]_allVars

\* ------------------------------------------------------------------------
\* Properties
\* ------------------------------------------------------------------------
True == Return(JSBool(TRUE))
False == Return(JSBool(FALSE))

\* |a - b|
Distance(a, b) == IF a >= b THEN a - b ELSE b - a

VerifySignatureDone == call.op = "verifySignature" /\ pc = "done"
VerifyAndParseDone == call.op = "verifyAndParse" /\ pc = "done"
ExtractHeadersDone == call.op = "extractHeaders" /\ pc = "done"

\* the digest of the configured secret over "<timestamp>.<body>"
ExpectedDigest(timestamp, body) ==
  HmacSha256Hex(verifier.secret, SigningMessage(timestamp, body))

\* signature is the expected digest, bare or behind one "sha256="
CorrectlySigned(signature, timestamp, body) ==
  /\ signature.t = "str"
  /\ \/ signature.v = ExpectedDigest(timestamp, body)
     \/ signature.v = Sha256Prefix \o ExpectedDigest(timestamp, body)

InWindow(timestamp) ==
  timestamp.t = "num" /\ Distance(now, timestamp.v) <= verifier.maxAgeSeconds

\* a and b have the same length and differ in exactly one position
OneCharApart(a, b) ==
  /\ Len(a) = Len(b)
  /\ Cardinality({i \in 1..Len(a) : a[i] # b[i]}) = 1

\* C1: verifySignature never raises: whatever signature (a string of any
\* shape, or undefined), timestamp (an integer or NaN) and body it is given,
\* the call returns a boolean.
C1_NeverRaises ==
  VerifySignatureDone => result.kind = "return" /\ result.value.t = "bool"

\* C2: the replay window is symmetric and inclusive: a timestamp more than
\* maxAgeSeconds away from now, in the past or in the future, gives false
\* whatever the signature; a correctly signed delivery exactly maxAgeSeconds
\* away is accepted and one maxAgeSeconds + 1 away is rejected.
C2_ReplayWindow ==
  (VerifySignatureDone /\ call.timestamp.t = "num") =>
    LET d == Distance(now, call.timestamp.v)
        signed == CorrectlySigned(call.signature, call.timestamp, call.body)
    IN /\ d > verifier.maxAgeSeconds => result = False
       /\ (d = verifier.maxAgeSeconds /\ signed) => result = True
       /\ (d = verifier.maxAgeSeconds + 1 /\ signed) => result = False

\* a correctly signed delivery stamped exactly maxAgeSeconds in the future
\* has been accepted
C2_Witness ==
  /\ VerifySignatureDone
  /\ call.timestamp.t = "num"
  /\ verifier.maxAgeSeconds > 0
  /\ call.timestamp.v = now + verifier.maxAgeSeconds
  /\ CorrectlySigned(call.signature, call.timestamp, call.body)
  /\ result = True

\* C3: inside the window, verifySignature returns true exactly when the
\* signature, less one optional leading "sha256=", is the lowercase hex
\* digest of the secret over "<decimal T>.<body>": the digest is accepted
\* with and without the prefix, and a signature of another length, a
\* signature one character away from the digest, and the digest of a body
\* one character away all give false.
C3_SignatureMatch ==
  (VerifySignatureDone /\ InWindow(call.timestamp) /\ call.signature.t = "str") =>
    LET sig == call.signature.v
        expected == ExpectedDigest(call.timestamp, call.body)
        stripped == IF Len(sig) >= 7 /\ SubSeq(sig, 1, 7) = Sha256Prefix
                    THEN SubSeq(sig, 8, Len(sig)) ELSE sig
    IN /\ result \in {True, False}
       /\ result = True <=> stripped = expected
       /\ Len(expected) = DigestLen
       /\ expected = ToLowerCase(expected)
       /\ sig \in {expected, Sha256Prefix \o expected} => result = True
       /\ Len(stripped) # DigestLen => result = False
       /\ OneCharApart(stripped, expected) => result = False
       /\ (\E i \in 1..Len(call.body) :
             stripped = ExpectedDigest(call.timestamp, MutateAt(call.body, i)))
            => result = False

\* the digest behind the prefix has been accepted inside the window
C3_Witness ==
  /\ VerifySignatureDone
  /\ InWindow(call.timestamp)
  /\ call.signature.t = "str"
  /\ call.signature.v = Sha256Prefix \o ExpectedDigest(call.timestamp, call.body)
  /\ result = True

\* C4: verifyAndParse parses the body and returns a payload only after
\* verifySignature has returned true for the same signature, normalised
\* timestamp and body; when the check returns false the call fails with
\* "Invalid webhook signature", the body is never parsed and no payload
\* field is returned.
C4_VerifiedBeforeParsed ==
  call.op = "verifyAndParse" =>
    LET parsing == pc \in {"parse", "validate"}
                     \/ \E i \in 1..Len(steps) : steps[i] = "JSON.parse"
    IN /\ (parsing \/ result.kind = "return") =>
            /\ checked = True
            /\ checked = verifySignature(verifier.secret, verifier.maxAgeSeconds,
                                         now, call.signature, ts, call.body)
            /\ ts = NormalizeTimestamp(call.timestamp)
            /\ SubSeq(steps, 1, 2) = <<"normalize", "verifySignature">>
       /\ data.t # "undefined" => parsing
       /\ checked = False =>
            /\ pc = "done"
            /\ result = InvalidSignatureError
            /\ ~parsing
            /\ data = JSUndefined

\* a delivery whose check returned false has been refused
C4_Witness ==
  /\ VerifyAndParseDone
  /\ checked = False
  /\ result = InvalidSignatureError
  /\ JSONParse(call.body).ok

\* C5: the failure of verifyAndParse does not tell which sub-check failed: a
\* delivery outside the replay window, correctly signed for its timestamp,
\* and a delivery inside the window whose signature does not match fail
\* with the same error, "Invalid webhook signature", whatever the body.
C5_SameFailure ==
  VerifyAndParseDone =>
    LET stale == /\ ts.t = "num"
                 /\ Distance(now, ts.v) > verifier.maxAgeSeconds
                 /\ CorrectlySigned(call.signature, ts, call.body)
        mismatch == /\ InWindow(ts)
                    /\ call.signature.t = "str"
                    /\ ~CorrectlySigned(call.signature, ts, call.body)
    IN (stale \/ mismatch) => result = InvalidSignatureError

\* a correctly signed delivery outside the window has been refused
C5_Witness ==
  /\ VerifyAndParseDone
  /\ ts.t = "num"
  /\ ts.v > now + verifier.maxAgeSeconds
  /\ CorrectlySigned(call.signature, ts, call.body)
  /\ result = InvalidSignatureError

\* the body of the call was signed correctly, checked inside the window and
\* parsed to an object
SignedObjectBody ==
  /\ VerifyAndParseDone
  /\ InWindow(ts)
  /\ CorrectlySigned(call.signature, ts, call.body)
  /\ checked = True
  /\ data.t = "obj"

\* the parsed body has a member of that name whose value is neither null,
\* false, 0 nor the empty string
Supplied(name) == HasOwn(data, name) /\ Truthy(OwnValue(data, name))

\* the parsed body has no member of that name, or an empty string, an empty
\* object or an empty array
AbsentOrEmpty(name) ==
  \/ ~HasOwn(data, name)
  \/ /\ OwnValue(data, name).t \in {"str", "obj", "arr"}
     /\ Len(OwnValue(data, name).v) = 0

\* the parsed body has no member of that name, or null, false, 0 or the
\* empty string
AbsentOrFalsy(name) ==
  \/ ~HasOwn(data, name)
  \/ OwnValue(data, name).t = "null"
  \/ OwnValue(data, name) \in {JSStr(<<>>)}
  \/ OwnValue(data, name).t = "num" /\ OwnValue(data, name).v = 0
  \/ OwnValue(data, name).t = "bool" /\ ~OwnValue(data, name).v

\* C6 as stated: a validly signed object body in which event, timestamp or
\* data is absent or empty fails with the Missing-Field error that names it,
\* and no payload is returned.
C6_Original ==
  SignedObjectBody =>
    /\ AbsentOrEmpty(EventName) => result = MissingFieldError("event")
    /\ (Supplied(EventName) /\ AbsentOrEmpty(TimestampName))
         => result = MissingFieldError("timestamp")
    /\ (Supplied(EventName) /\ Supplied(TimestampName) /\ AbsentOrEmpty(DataName))
         => result = MissingFieldError("data")

\* C6, amended: a validly signed object body in which event, timestamp or
\* data is absent, null, false, 0 or the empty string fails with the
\* Missing-Field error that names the first such field in the order event,
\* timestamp, data (three distinct errors) and no payload is returned; an
\* empty object or array as data is not missing, and the payload is
\* returned.
C6_MissingField ==
  SignedObjectBody =>
    /\ AbsentOrFalsy(EventName) => result = MissingFieldError("event")
    /\ (~AbsentOrFalsy(EventName) /\ AbsentOrFalsy(TimestampName))
         => result = MissingFieldError("timestamp")
    /\ (~AbsentOrFalsy(EventName) /\ ~AbsentOrFalsy(TimestampName)
          /\ AbsentOrFalsy(DataName))
         => result = MissingFieldError("data")
    /\ Cardinality({MissingFieldError(f) : f \in {"event", "timestamp", "data"}}) = 3
    /\ (\E f \in {EventName, TimestampName, DataName} : AbsentOrFalsy(f))
         <=> result.kind = "throw"
    /\ (Supplied(EventName) /\ Supplied(TimestampName) /\ HasOwn(data, DataName)
          /\ OwnValue(data, DataName).t \in {"obj", "arr"})
         => result.kind = "return"

\* a validly signed body without its timestamp field alone has failed with
\* the error naming timestamp
C6_Witness ==
  /\ SignedObjectBody
  /\ Supplied(EventName)
  /\ ~HasOwn(data, TimestampName)
  /\ Supplied(DataName)
  /\ result = MissingFieldError("timestamp")

\* bodies that are not well-formed JSON, and what the parser says of each
MalformedBodies == {BodyTruncated, BodyEmptyText, BodyTrailingComma}
ParserMessage(body) ==
  IF body = BodyTrailingComma THEN "Unexpected token in JSON"
  ELSE "Unexpected end of JSON input"

\* C7: a body that is not well-formed JSON, with an in-window timestamp,
\* fails with the parse error embedding the parser's message when its
\* signature is correct over that exact text, and with the authentication
\* failure, not the parse error, when its signature is wrong.
C7_ParseError ==
  (/\ VerifyAndParseDone
   /\ call.body \in MalformedBodies
   /\ InWindow(ts)
   /\ call.signature.t = "str") =>
    IF CorrectlySigned(call.signature, ts, call.body)
    THEN /\ result = Throw("Error", <<"Invalid JSON payload: ", ParserMessage(call.body)>>)
         /\ result # InvalidSignatureError
         /\ steps = <<"normalize", "verifySignature", "JSON.parse">>
    ELSE /\ result = InvalidSignatureError
         /\ steps = <<"normalize", "verifySignature">>

\* the truncated body, correctly signed, has failed with the parse error
C7_Witness ==
  /\ VerifyAndParseDone
  /\ call.body = BodyTruncated
  /\ InWindow(ts)
  /\ CorrectlySigned(call.signature, ts, call.body)
  /\ result.kind = "throw"
  /\ result.message = <<"Invalid JSON payload: ", "Unexpected end of JSON input">>

\* C8: every payload verifyAndParse returns is well-formed: event is a
\* non-empty string, timestamp a string and data a mapping, each the field
\* of the parsed body, and deliveryId is the string the caller supplied, or
\* the empty string.
C8_WellFormedPayload ==
  (VerifyAndParseDone /\ result.kind = "return") =>
    LET payload == result.value.v
    IN /\ payload.event.t = "str" /\ Len(payload.event.v) > 0
       /\ payload.timestamp.t = "str"
       /\ payload.data.t = "obj"
       /\ payload.event = OwnValue(data, EventName)
       /\ payload.timestamp = OwnValue(data, TimestampName)
       /\ payload.data = OwnValue(data, DataName)
       /\ payload.deliveryId.t = "str"
       /\ payload.deliveryId = IF call.deliveryId.t = "undefined" THEN JSStr(<<>>)
                               ELSE call.deliveryId

\* the headers of the call, every name spelled in the given style and the
\* carrier of the given shape
Respelled(headers, shape, style) ==
  LET entries == [i \in 1..Len(headers.entries) |->
                    <<Spell(style, ToLowerCase(headers.entries[i][1])),
                      headers.entries[i][2]>>]
  IN IF shape = "Headers" THEN NewHeaders(entries) ELSE NewRecord(entries)

\* C9: extractHeaders is case-insensitive in the header names for both
\* carrier shapes: for the same header values it gives the same outcome
\* however the names are spelled and whether the carrier is a Headers
\* collection or a plain object.
C9_CaseInsensitive ==
  ExtractHeadersDone =>
    \A shape \in {"Headers", "Record"}, style \in Spellings :
      extractHeaders(Respelled(call.headers, shape, style)) = result

\* a plain object with the names in title case has given its four values
C9_Witness ==
  /\ ExtractHeadersDone
  /\ call.headers.shape = "Record"
  /\ \E i \in 1..Len(call.headers.entries) :
       call.headers.entries[i][1] = TitleCase(SignatureHeader)
  /\ \E i \in 1..Len(call.headers.entries) :
       call.headers.entries[i][1] = TitleCase(TimestampHeader)
  /\ result.kind = "return"
  /\ result.value.v.signature = JSStr(Sha256Prefix \o <<"a","b">>)

\* the carrier of the call has an entry of that (lower-case) name
HeaderPresent(name) ==
  \E i \in 1..Len(call.headers.entries) :
    ToLowerCase(call.headers.entries[i][1]) = name

\* the value of that entry
HeaderValue(name) ==
  call.headers.entries[CHOOSE i \in 1..Len(call.headers.entries) :
                         ToLowerCase(call.headers.entries[i][1]) = name][2]

HeaderOrEmpty(name) == IF HeaderPresent(name) THEN HeaderValue(name) ELSE <<>>

\* what extractHeaders returns when it returns
ExpectedHeaders ==
  Return(ExtractedHeaders(JSStr(HeaderValue(SignatureHeader)),
                          JSStr(HeaderValue(TimestampHeader)),
                          JSStr(HeaderOrEmpty(EventHeader)),
                          JSStr(HeaderOrEmpty(DeliveryIdHeader))))

\* C10 as stated: extractHeaders fails exactly when a mandatory header is
\* absent, the signature being checked first; with both mandatory headers
\* present it returns their values unchanged, and the empty string for an
\* absent event or delivery id.
C10_Original ==
  ExtractHeadersDone =>
    /\ ~HeaderPresent(SignatureHeader) => result = MissingSignatureHeader
    /\ (HeaderPresent(SignatureHeader) /\ ~HeaderPresent(TimestampHeader))
         => result = MissingTimestampHeader
    /\ (HeaderPresent(SignatureHeader) /\ HeaderPresent(TimestampHeader))
         => result = ExpectedHeaders

\* the header is present and its value is not the empty string
HeaderGiven(name) == HeaderPresent(name) /\ HeaderValue(name) # <<>>

\* C10, amended: extractHeaders fails exactly when a mandatory header is
\* absent or has the empty string as its value, the signature being checked
\* first; with both mandatory headers present and non-empty it returns
\* their values unchanged, and the empty string for an absent event or
\* delivery id.
C10_MissingHeader ==
  ExtractHeadersDone =>
    /\ ~HeaderGiven(SignatureHeader) => result = MissingSignatureHeader
    /\ (HeaderGiven(SignatureHeader) /\ ~HeaderGiven(TimestampHeader))
         => result = MissingTimestampHeader
    /\ (HeaderGiven(SignatureHeader) /\ HeaderGiven(TimestampHeader))
         => result = ExpectedHeaders

\* a request whose signature header is present but empty has been refused
C10_Witness ==
  /\ ExtractHeadersDone
  /\ HeaderPresent(SignatureHeader)
  /\ HeaderValue(SignatureHeader) = <<>>
  /\ HeaderGiven(TimestampHeader)
  /\ result = MissingSignatureHeader

\* C12: verifyAndParse accepts a delivery only if its timestamp normalises
\* to an integer within maxAgeSeconds of now: with a timestamp that is not a
\* number after normalisation, or lies outside the window, the call fails
\* with "Invalid webhook signature" whatever string is supplied as the
\* signature, the digest of the message built from that timestamp included.
C12_WindowRequired ==
  VerifyAndParseDone =>
    /\ result.kind = "return" => InWindow(ts)
    /\ (~InWindow(ts) /\ call.signature.t = "str")
         => result = InvalidSignatureError

\* the three Missing-Field errors
MissingFieldErrors == {MissingFieldError(f) : f \in {"event", "timestamp", "data"}}

\* C13: for a validly signed, in-window body, verifyAndParse returns a
\* payload or raises exactly one error that is the parse error or one of
\* the three Missing-Field errors; a well-formed body that is not an object
\* (null, a number, a string, an array) ends in a Missing-Field error.
C13_ClosedTaxonomy ==
  (/\ VerifyAndParseDone
   /\ InWindow(ts)
   /\ CorrectlySigned(call.signature, ts, call.body)) =>
    /\ \/ result.kind = "return"
       \/ /\ ~JSONParse(call.body).ok
          /\ result = InvalidJsonError(JSONParse(call.body).msg)
       \/ result \in MissingFieldErrors
    /\ (JSONParse(call.body).ok /\ JSONParse(call.body).val.t # "obj")
         => result \in MissingFieldErrors

\* C11, second part: once request has finished its timer is no longer
\* armed, so it cannot fire afterwards
C11_TimerCleared == cpc = "done" => timer \in {"cleared", "fired"}

\* C11: a request is bounded by the configured timeout: when the timeout
\* has elapsed and the exchange is not complete (the response received and
\* its body read), the abort timer is still in force or has aborted the
\* request, and a call that finishes after the timeout has failed by the
\* abort; and the timer is cleared once the call has finished.
C11_TimeoutBounds ==
  /\ (cpc \in {"fetching", "reading"} /\ elapsed >= client.timeout)
       => (timer = "armed" \/ aborted)
  /\ (cpc = "done" /\ elapsed > client.timeout)
       => (aborted /\ cresult = RequestFailed("This operation was aborted"))
  /\ C11_TimerCleared

====
